---- MODULE Spec2Model ----
(***************************************************************************)
(* State-machine model of the local X server supervision code of lightdm:  *)
(* the display-number allocator, the lock-file probe and the life cycle of *)
(* an XServerLocal object (src/src/x-server-local.c).                      *)
(***************************************************************************)
EXTENDS Integers, Sequences, FiniteSets, TLC

\* ------------------------------------------------------------------ bounds
\* Display numbers handed out by the allocator are capped at MaxDisplay.
MaxDisplay == 2
\* Lock files /tmp/.X<n>-lock are modelled for n in 0..MaxLock.
MaxLock == 1
\* Largest configured minimum-display-number.
MaxMin == 1
\* Longest lock-file contents (in characters) the probe is run on.
MaxLen == 3
\* Number of allocator calls remembered in the call history.
HistLen == 3

\* ------------------------------------------------------------- characters
SP == "SP"
NL == "NL"
MINUS == "-"
Digits == {"0", "1", "7", "9"}
Whitespace == {SP, NL}
Chars == Digits \cup Whitespace \cup {MINUS, "a"}

DigitVal(c) == CASE c = "0" -> 0 [] c = "1" -> 1 [] c = "7" -> 7 [] c = "9" -> 9

RECURSIVE SeqsUpTo(_)
SeqsUpTo(k) ==
    IF k = 0 THEN {<<>>}
    ELSE LET shorter == SeqsUpTo(k - 1)
         IN  shorter \cup {Append(s, c) : s \in {t \in shorter : Len(t) = k - 1}, c \in Chars}

Contents == SeqsUpTo(MaxLen)

\* g_strstrip: drop leading and trailing white space.
RECURSIVE StripLeft(_)
StripLeft(s) ==
    IF s # <<>> /\ Head(s) \in Whitespace THEN StripLeft(Tail(s)) ELSE s

RECURSIVE StripRight(_)
StripRight(s) ==
    IF s # <<>> /\ s[Len(s)] \in Whitespace
    THEN StripRight(SubSeq(s, 1, Len(s) - 1)) ELSE s

g_strstrip(s) == StripRight(StripLeft(s))

\* atoi: skip white space, take an optional sign, then the longest run of
\* digits; no digits give 0.
RECURSIVE ParseDigits(_, _)
ParseDigits(s, acc) ==
    IF s # <<>> /\ Head(s) \in Digits
    THEN ParseDigits(Tail(s), 10 * acc + DigitVal(Head(s)))
    ELSE acc

atoi(s) ==
    LET t == StripLeft(s)
    IN  IF t # <<>> /\ Head(t) = MINUS THEN 0 - ParseDigits(Tail(t), 0)
        ELSE ParseDigits(t, 0)

\* --------------------------------------------------------- process table
\* Outcome of kill (pid, 0) for pid >= 0: pid 0 addresses the caller's own
\* process group and succeeds; a live process of another user gives EPERM;
\* a pid no process has gives ESRCH.
OwnPids == {7, 17}
ForeignPids == {1}
kill0(pid) ==
    IF pid = 0 \/ pid \in OwnPids THEN "ok"
    ELSE IF pid \in ForeignPids THEN "EPERM"
    ELSE "ESRCH"

\* ------------------------------------------------------------ lock files
Absent == [exists |-> FALSE, readable |-> FALSE, data |-> <<>>]
Unreadable == [exists |-> TRUE, readable |-> FALSE, data |-> <<>>]
LockFile(d) == [exists |-> TRUE, readable |-> TRUE, data |-> d]
FileStates == {Absent, Unreadable} \cup {LockFile(d) : d \in Contents}
\* The lock files the allocator runs are checked against: none, a readable
\* lock of a live server, a stale lock, an empty lock.
AllocFileStates ==
    {Absent, LockFile(<<"7", NL>>), LockFile(<<"9", NL>>), LockFile(<<>>)}

VARIABLES
    display_numbers,   \* static GList *display_numbers
    min_display,       \* [LightDM] minimum-display-number
    locks,             \* /tmp/.X<n>-lock, n in 0..MaxLock
    hist,              \* the last allocator calls: [op, n]
    server,            \* the XServerLocal objects: XServerLocalPrivate and
                       \* what the base classes and the supervisor hold for each
    auth_files,        \* the authority files that exist under <run-directory>/root
    last,              \* the last call or event on a server, with its result
    launch,            \* the configuration and environment of a start (), and
                       \* what it handed to the supervisor
    seats,             \* the SeatXDMCPSession objects
    xversion           \* the version statics, the X binary, the last compare

allocVars == <<display_numbers, min_display, locks, hist>>
serverVars == <<server, auth_files, last>>
restVars == <<launch, seats, xversion>>
vars == <<display_numbers, min_display, locks, hist, server, auth_files, last,
          launch, seats, xversion>>

Range(s) == {s[i] : i \in 1..Len(s)}

LockOf(n) == IF n \in DOMAIN locks THEN locks[n] ELSE Absent

\* display_number_in_use, second half: the lock file of a server we do not
\* manage.
ForeignLock(f) ==
    IF f.exists /\ f.readable
    THEN LET pid == atoi(g_strstrip(f.data))
         IN  ~(pid < 0 \/ kill0(pid) = "ESRCH")
    ELSE f.exists

\* Mutant: the probe forgets the numbers this daemon manages itself.
display_number_in_use_NoList(n) == ForeignLock(LockOf(n))

display_number_in_use(n) ==
    n \in Range(display_numbers) \/ ForeignLock(LockOf(n))

\* x_server_local_get_unused_display_number: the loop.
RECURSIVE FirstUnused(_)
FirstUnused(number) ==
    IF display_number_in_use(number) THEN FirstUnused(number + 1) ELSE number

\* Mutant: the search ignores the configured minimum.
UnusedDisplayNumber_FromZero == FirstUnused(0)

UnusedDisplayNumber == FirstUnused(min_display)

\* g_list_delete_link of the first link that holds n.
RECURSIVE DeleteFirst(_, _)
DeleteFirst(s, n) ==
    IF s = <<>> THEN <<>>
    ELSE IF Head(s) = n THEN Tail(s)
    ELSE <<Head(s)>> \o DeleteFirst(Tail(s), n)

\* Mutant: release leaves the list as it is.
ReleasedList_Kept(n) == display_numbers

ReleasedList(n) == DeleteFirst(display_numbers, n)

Remember(e) ==
    LET h == Append(hist, e)
    IN  IF Len(h) > HistLen THEN Tail(h) ELSE h


\* -------------------------------------------------------- version statics
\* A guint or a gint is 32 bits wide; it is kept as two 16-bit halves.
Half == 65536
guint(n) == [hi |-> (n \div Half) % Half, lo |-> n % Half]

\* a - b on unsigned 32-bit values: the difference modulo 2^32.
Minus32(a, b) ==
    LET lo == a.lo - b.lo
        borrow == IF lo < 0 THEN 1 ELSE 0
    IN  [hi |-> (a.hi - b.hi - borrow) % Half, lo |-> lo % Half]

\* The sign of a 32-bit pattern returned as a gint: bit 31 set is negative.
Sign(g) ==
    IF g.hi >= Half \div 2 THEN 0 - 1 ELSE IF g = guint(0) THEN 0 ELSE 1

\* static gchar *version: not set, or a text.
NoText == <<>>
Text(t) == <<t>>
DOT == "."

\* g_strsplit (string, ".", max): the pieces between the dots, the last
\* piece keeps what is left over; the empty string has no piece.
FirstDot(s) ==
    IF \E i \in 1..Len(s) : s[i] = DOT
    THEN CHOOSE i \in 1..Len(s) : s[i] = DOT /\ \A j \in 1..(i - 1) : s[j] # DOT
    ELSE 0

RECURSIVE Pieces(_, _)
Pieces(s, max) ==
    IF max = 1 \/ FirstDot(s) = 0 THEN <<s>>
    ELSE <<SubSeq(s, 1, FirstDot(s) - 1)>>
             \o Pieces(SubSeq(s, FirstDot(s) + 1, Len(s)), max - 1)

g_strsplit(s, max) == IF s = <<>> THEN <<>> ELSE Pieces(s, max)

\* What "X -version" gives: whether it could be spawned, its exit status,
\* and its stderr lines, each with or without the X.Org prefix.
Line(prefix, rest) == [prefix |-> prefix, rest |-> rest]
Ran(exit_status, lines) ==
    [spawned |-> TRUE, exit_status |-> exit_status, lines |-> lines]
NotRun == [spawned |-> FALSE, exit_status |-> 0, lines |-> <<>>]

\* find_version over the lines: the first line with the prefix.
RECURSIVE find_version(_)
find_version(lines) ==
    IF lines = <<>> THEN NoText
    ELSE IF Head(lines).prefix THEN Text(Head(lines).rest)
    ELSE find_version(Tail(lines))

NoVersion ==
    [version |-> NoText, version_major |-> guint(0), version_minor |-> guint(0),
     asked |-> <<>>]

\* x_server_local_get_version: the cached text, or a run of "X -version".
\* With no version found the split is of NULL and has no token.
x_server_local_get_version(xv, out) ==
    IF xv.version # NoText \/ ~out.spawned THEN xv
    ELSE LET found == IF out.exit_status = 0 THEN find_version(out.lines)
                      ELSE NoText
             tokens == IF found = NoText THEN <<>> ELSE g_strsplit(found[1], 3)
         IN  [xv EXCEPT !.version = found,
                        !.version_major =
                            IF Len(tokens) > 0 THEN guint(atoi(tokens[1])) ELSE guint(0),
                        !.version_minor =
                            IF Len(tokens) > 1 THEN guint(atoi(tokens[2])) ELSE guint(0)]

\* x_server_local_version_compare on the statics xv: the 32-bit difference,
\* and its sign when returned as a gint (the callers look at the sign only).
Difference(xv, major, minor) ==
    IF major = xv.version_major THEN Minus32(xv.version_minor, minor)
    ELSE Minus32(xv.version_major, major)

x_server_local_version_compare(xv, major, minor) ==
    Sign(Difference(xv, major, minor))

\* ------------------------------------------------------------ the servers
\* Number of XServerLocal objects, and the largest VT index passed to set_vt.
NumServers == 1
MaxVt == 1
Servers == 1..NumServers
VtValues == (0 - 1)..MaxVt
NULL == "NULL"
\* Commands passed to set_command: none, a binary found in PATH, one that
\* is not.
Commands == {NULL, "X", "nox"}
InPath == {"X"}
SIGUSR1 == "SIGUSR1"
Signals == {SIGUSR1, "SIGTERM"}
NoFile == <<>>
\* <run-directory>/root/<address>, the address of a local server being
\* ":<display_number>".
AuthPath(n) == <<"root", n>>
\* The VT registry has one index more than the seat uses in Spec.
VtIndexes == 1..(MaxVt + 1)
NoVt == [v \in VtIndexes |-> 0]

\* An object that is not constructed yet (or is destroyed): zeroed private
\* data, no child; r gives the VT references and the counts of what
\* observers saw.
Blank(life, r) ==
    [life |-> life, x_server_process |-> FALSE, command |-> NULL,
     display_number |-> 0, got_signal |-> FALSE, vt |-> 0,
     have_vt_ref |-> FALSE, authority |-> FALSE, authority_file |-> NoFile,
     xdmcp_key |-> NULL, child |-> "none", vt_held |-> r.vt_held,
     base_start |-> r.base_start, base_stop |-> r.base_stop,
     stopped_runs |-> r.stopped_runs, launches |-> r.launches,
     spawns |-> r.spawns]

Zero == [vt_held |-> NoVt, base_start |-> 0, base_stop |-> 0,
         stopped_runs |-> 0, launches |-> 0, spawns |-> 0]

\* Nothing was launched.
NoLaunch == [op |-> "none"]

\* ---- SeatXDMCPSession
\* Number of seats, and of create_display_server calls on one seat.
NumSeats == 1
MaxCalls == 4
Seats == 1..NumSeats
SessionTypes == {"x", "wayland"}
\* An XDMCPSession: the peer address, the display number, the authority.
XdmcpSessions ==
    [address : {"10.0.0.7"}, display_number : {0, 1}, authority : {"cookie"}]
\* No object: a NULL pointer, a NULL return.
None == 0
NoSession == [address |-> NULL, display_number |-> 0, authority |-> NULL]
NoSeat == [life |-> "none", session |-> NoSession, x_server |-> None, calls |-> <<>>]

\* No seat exists, no XServerRemote was made.
NoSeats == [seat |-> [i \in Seats |-> NoSeat], remotes |-> <<>>]

\* seat_xdmcp_session_new.
seat_xdmcp_session_new(session) ==
    [life |-> "live", session |-> session, x_server |-> None, calls |-> <<>>]

\* x_server_remote_new with the attributes of the session of the seat.
x_server_remote_new(i, session) ==
    [seat |-> i, host |-> session.address, display_number |-> session.display_number,
     authority |-> session.authority]

\* Mutant: a server is made on every "x" request.
seat_xdmcp_session_create_display_server_Always(seat, type, fresh) ==
    IF type # "x" THEN [seat |-> seat, ret |-> None]
    ELSE [seat |-> [seat EXCEPT !.x_server = fresh], ret |-> fresh]

\* seat_xdmcp_session_create_display_server: the seat afterwards and the
\* object returned; fresh is the object x_server_remote_new would make.
seat_xdmcp_session_create_display_server(seat, type, fresh) ==
    IF type # "x" THEN [seat |-> seat, ret |-> None]
    ELSE IF seat.x_server # None THEN [seat |-> seat, ret |-> None]
    ELSE [seat |-> [seat EXCEPT !.x_server = fresh], ret |-> fresh]

\* seat_xdmcp_session_finalize: the session and the server are let go.
seat_xdmcp_session_finalize(seat) ==
    [seat EXCEPT !.life = "finalized", !.session = NoSession, !.x_server = None]

NoServers ==
    /\ server = [s \in Servers |-> Blank("none", Zero)]
    /\ auth_files = {}
    /\ last = [op |-> "none", s |-> 0, ret |-> FALSE, why |-> "none"]
    /\ launch = NoLaunch
    /\ seats = NoSeats
    /\ xversion = NoVersion

\* vt_ref and vt_unref on the VT registry, as the share of one server.
vt_ref(held, v) == [held EXCEPT ![v] = @ + 1]
vt_unref(held, v) ==
    IF v \in DOMAIN held /\ held[v] > 0 THEN [held EXCEPT ![v] = @ - 1] ELSE held

\* x_server_local_init.
x_server_local_init(r, number) ==
    [r EXCEPT !.life = "live", !.vt = 0 - 1, !.command = "X",
              !.display_number = number]

\* Mutant: the reference on the old VT is not given back.
x_server_local_set_vt_NoUnref(r, v) ==
    [r EXCEPT !.vt = v,
              !.have_vt_ref = (v > 0),
              !.vt_held = IF v > 0 THEN vt_ref(@, v) ELSE @]

\* x_server_local_set_vt.
x_server_local_set_vt(r, v) ==
    LET dropped == IF r.have_vt_ref THEN vt_unref(r.vt_held, r.vt) ELSE r.vt_held
    IN  [r EXCEPT !.vt = v,
                  !.have_vt_ref = (v > 0),
                  !.vt_held = IF v > 0 THEN vt_ref(dropped, v) ELSE dropped]

\* x_server_local_set_xdmcp_key: the key, and the authority is cleared.
x_server_local_set_xdmcp_key(r, key) ==
    [r EXCEPT !.xdmcp_key = key, !.authority = FALSE]

\* Mutant: the ready signal is not remembered, every SIGUSR1 chains start.
got_signal_cb_EverySignal(r, signum) ==
    IF signum = SIGUSR1
    THEN [r EXCEPT !.got_signal = TRUE, !.base_start = @ + 1]
    ELSE r

\* got_signal_cb.
got_signal_cb(r, signum) ==
    IF signum = SIGUSR1 /\ ~r.got_signal
    THEN [r EXCEPT !.got_signal = TRUE, !.base_start = @ + 1]
    ELSE r

\* Mutant: the VT reference is kept when the server stops.
stopped_cb_KeepsVt(r) ==
    [r EXCEPT !.authority_file =
                  IF r.authority /\ r.authority_file # NoFile THEN NoFile ELSE @,
              !.base_stop = @ + 1,
              !.stopped_runs = @ + 1]

\* Mutant: the process object is dropped when the server stops.
stopped_cb_DropsProcess(r) ==
    [r EXCEPT !.vt_held = IF r.have_vt_ref THEN vt_unref(@, r.vt) ELSE @,
              !.have_vt_ref = FALSE,
              !.x_server_process = FALSE,
              !.authority_file =
                  IF r.authority /\ r.authority_file # NoFile THEN NoFile ELSE @,
              !.base_stop = @ + 1,
              !.stopped_runs = @ + 1]

\* Mutant: the ready flag is cleared when the server stops.
stopped_cb_ResetsSignal(r) ==
    [r EXCEPT !.vt_held = IF r.have_vt_ref THEN vt_unref(@, r.vt) ELSE @,
              !.have_vt_ref = FALSE,
              !.got_signal = FALSE,
              !.authority_file =
                  IF r.authority /\ r.authority_file # NoFile THEN NoFile ELSE @,
              !.base_stop = @ + 1,
              !.stopped_runs = @ + 1]

\* Mutant: the stopped handler of the base class is not chained.
stopped_cb_NoBaseStop(r) ==
    [r EXCEPT !.vt_held = IF r.have_vt_ref THEN vt_unref(@, r.vt) ELSE @,
              !.have_vt_ref = FALSE,
              !.authority_file =
                  IF r.authority /\ r.authority_file # NoFile THEN NoFile ELSE @,
              !.stopped_runs = @ + 1]

\* stopped_cb, the part on the server's own data: the VT reference, the
\* stored authority path and the base class's stop.
stopped_cb(r) ==
    [r EXCEPT !.vt_held = IF r.have_vt_ref THEN vt_unref(@, r.vt) ELSE @,
              !.have_vt_ref = FALSE,
              !.authority_file =
                  IF r.authority /\ r.authority_file # NoFile THEN NoFile ELSE @,
              !.base_stop = @ + 1,
              !.stopped_runs = @ + 1]

\* stopped_cb, the files: g_unlink of the authority file.
stopped_cb_files(r, files) ==
    IF r.authority /\ r.authority_file # NoFile
    THEN files \ {r.authority_file} ELSE files

\* write_authority_file: the path is stored whenever there is an authority;
\* the file is there afterwards when x_authority_write succeeded.
write_authority_file(r) ==
    IF r.authority /\ r.authority_file = NoFile
    THEN [r EXCEPT !.authority_file = AuthPath(r.display_number)]
    ELSE r

write_authority_file_files(r, files, written) ==
    IF r.authority /\ written
    THEN files \cup {write_authority_file(r).authority_file}
    ELSE files

\* g_strsplit (command, " ", 2): the binary, and the arguments after it.
Tokens(command) ==
    CASE command = "X -core" -> <<"X", "-core">>
      [] command = "nox -core" -> <<"nox", "-core">>
      [] OTHER -> <<command>>

g_find_program_in_path(binary) ==
    IF binary \in InPath THEN "/usr/bin/" \o binary ELSE NULL

\* get_absolute_command: the words of the command with the binary made
\* absolute, none when the binary is not in PATH.
NotFound == <<>>
get_absolute_command(command) ==
    IF g_find_program_in_path(Tokens(command)[1]) = NULL THEN NotFound
    ELSE <<g_find_program_in_path(Tokens(command)[1])>> \o Tail(Tokens(command))

\* How a call of x_server_local_start ends: on one of the two
\* g_return_val_if_fail, on the binary not being found, on process_start
\* failing, or with the child running.
StartOutcome(r, spawned) ==
    IF r.x_server_process \/ r.command = NULL THEN "precondition"
    ELSE IF get_absolute_command(r.command) = NotFound THEN "notfound"
    ELSE IF ~spawned THEN "spawnfailed"
    ELSE "started"

\* Mutant: a failing process_start returns without the stopped handling.
start_process_NoCleanup(r, spawned) ==
    IF get_absolute_command(r.command) = NotFound THEN stopped_cb(r)
    ELSE IF spawned
    THEN [write_authority_file(r) EXCEPT !.child = "running", !.spawns = @ + 1]
    ELSE [write_authority_file(r) EXCEPT !.spawns = @ + 1]

\* Mutant: the stopped handling is left out when the binary is not found.
start_process_NotFoundBare(r, spawned) ==
    IF get_absolute_command(r.command) = NotFound THEN r
    ELSE IF spawned
    THEN [write_authority_file(r) EXCEPT !.child = "running", !.spawns = @ + 1]
    ELSE stopped_cb([write_authority_file(r) EXCEPT !.spawns = @ + 1])

\* x_server_local_start from the resolving of the command on: the binary
\* is looked up, the authority written, process_start called (spawns counts
\* the calls).
start_process(r, spawned) ==
    IF get_absolute_command(r.command) = NotFound THEN stopped_cb(r)
    ELSE IF spawned
    THEN [write_authority_file(r) EXCEPT !.child = "running", !.spawns = @ + 1]
    ELSE stopped_cb([write_authority_file(r) EXCEPT !.spawns = @ + 1])

\* x_server_local_start past its first check: got_signal is reset, the
\* command must be set, the process object is made.
start_checked(r, spawned) ==
    LET reset == [r EXCEPT !.got_signal = FALSE]
    IN  IF reset.command = NULL THEN reset
        ELSE start_process([reset EXCEPT !.x_server_process = TRUE,
                                         !.launches = @ + 1], spawned)

\* Mutant: got_signal is reset before the first check, not after it.
x_server_local_start_ResetFirst(r, spawned) ==
    IF r.x_server_process THEN [r EXCEPT !.got_signal = FALSE]
    ELSE start_checked(r, spawned)

\* x_server_local_start on the server's own data.
x_server_local_start(r, spawned) ==
    IF r.x_server_process THEN r ELSE start_checked(r, spawned)

\* x_server_local_start on the authority files.
x_server_local_start_files(r, files, written, spawned) ==
    LET why == StartOutcome(r, spawned)
        attached == [r EXCEPT !.x_server_process = TRUE]
    IN  IF why \in {"precondition", "notfound"} THEN
            IF why = "notfound" THEN stopped_cb_files(attached, files) ELSE files
        ELSE IF why = "started"
        THEN write_authority_file_files(attached, files, written)
        ELSE stopped_cb_files(write_authority_file(attached),
                              write_authority_file_files(attached, files, written))

\* Mutant: the number is released as soon as the child was spawned, too.
x_server_local_start_numbers_ReleasedAtStart(r, spawned) ==
    IF StartOutcome(r, spawned) \in {"notfound", "spawnfailed", "started"}
    THEN ReleasedList(r.display_number)
    ELSE display_numbers

\* x_server_local_start on the allocator's list.
x_server_local_start_numbers(r, spawned) ==
    IF StartOutcome(r, spawned) \in {"notfound", "spawnfailed"}
    THEN ReleasedList(r.display_number)
    ELSE display_numbers

\* ------------------------------------------- the command line of the child
\* The fields the seat sets with x_server_local_set_config, _set_layout,
\* _set_xdg_seat, _set_allow_tcp, _set_xdmcp_server, _set_xdmcp_port and
\* _set_background, and the words a subclass adds in add_args.
DefaultConfig ==
    [config_file |-> NULL, layout |-> NULL, xdg_seat |-> NULL,
     allow_tcp |-> FALSE, xdmcp_server |-> NULL, xdmcp_port |-> 0,
     background |-> NULL, add_args |-> <<>>]

Configs ==
    [config_file : {NULL, "xorg.conf"}, layout : {NULL, "lay"},
     xdg_seat : {NULL, "seat0"}, allow_tcp : BOOLEAN,
     xdmcp_server : {NULL, "host.example"}, xdmcp_port : {0, 177},
     background : {NULL, "none"}, add_args : {<<>>, <<"-mir", "id">>}]

\* The configuration in force: the defaults while no setter was called.
Config(l) == IF l.op = "none" THEN DefaultConfig ELSE l.cfg

\* The authority file path as the text printed after -auth.
PathText(file) == "/run/" \o file[1] \o "/:" \o ToString(file[2])

Opt(cond, words) == IF cond THEN words ELSE <<>>

\* Mutant: the TCP flag is chosen without looking at xdmcp_server first.
Network_TcpFirst(r, cfg, xv) ==
    IF cfg.allow_tcp
    THEN Opt(x_server_local_version_compare(xv, guint(1), guint(17)) >= 0,
             <<"-listen", "tcp">>)
    ELSE IF cfg.xdmcp_server # NULL
    THEN Opt(cfg.xdmcp_port # 0, <<"-port", ToString(cfg.xdmcp_port)>>)
             \o <<"-query", cfg.xdmcp_server>>
             \o Opt(r.xdmcp_key # NULL, <<"-cookie", r.xdmcp_key>>)
    ELSE <<"-nolisten", "tcp">>

\* The XDMCP words, or else the TCP flag (lines 464-479); xv holds the
\* version statics after x_server_local_get_version.
Network(r, cfg, xv) ==
    IF cfg.xdmcp_server # NULL
    THEN Opt(cfg.xdmcp_port # 0, <<"-port", ToString(cfg.xdmcp_port)>>)
             \o <<"-query", cfg.xdmcp_server>>
             \o Opt(r.xdmcp_key # NULL, <<"-cookie", r.xdmcp_key>>)
    ELSE IF cfg.allow_tcp
    THEN Opt(x_server_local_version_compare(xv, guint(1), guint(17)) >= 0,
             <<"-listen", "tcp">>)
    ELSE <<"-nolisten", "tcp">>

\* Mutant: -auth is left out when the authority file could not be written.
AuthWords_IfWritten(r, written) ==
    Opt(r.authority_file # NoFile /\ written, <<"-auth", PathText(r.authority_file)>>)

\* The -auth words (lines 460-462): r is the server after
\* write_authority_file, written says whether x_authority_write succeeded.
AuthWords(r, written) ==
    Opt(r.authority_file # NoFile, <<"-auth", PathText(r.authority_file)>>)

\* Mutant: the VT words come before the network words.
Assemble_VtEarly(binary, display, options, auth, network, vt, rest) ==
    binary \o display \o options \o auth \o vt \o network \o rest

\* The order the groups are appended in (lines 447-491).
Assemble(binary, display, options, auth, network, vt, rest) ==
    binary \o display \o options \o auth \o network \o vt \o rest

\* The string handed to process_set_command, word by word.
command_line(r, cfg, xv, written) ==
    Assemble(get_absolute_command(r.command),
             <<":" \o ToString(r.display_number)>>,
             Opt(cfg.config_file # NULL, <<"-config", cfg.config_file>>)
                 \o Opt(cfg.layout # NULL, <<"-layout", cfg.layout>>)
                 \o Opt(cfg.xdg_seat # NULL, <<"-seat", cfg.xdg_seat>>),
             AuthWords(write_authority_file(r), written),
             Network(r, cfg, xv),
             Opt(r.vt >= 0, <<"vt" \o ToString(r.vt), "-novtswitch">>),
             Opt(cfg.background # NULL, <<"-background", cfg.background>>)
                 \o cfg.add_args)

\* Whether the assembly gets to x_server_local_version_compare.
ComparesVersion(cfg) == cfg.xdmcp_server = NULL /\ cfg.allow_tcp

\* ------------------------------------------------ the environment of the child
\* An environment is a function from the names that are set to their values.
EnvNames ==
    {"DISPLAY", "XAUTHORITY", "LD_PRELOAD", "LD_LIBRARY_PATH", "PATH",
     "LIGHTDM_TEST_ROOT", "HOME"}
Displays == {":0", ":1"}
Environments ==
    {[n \in names |-> IF n = "DISPLAY" THEN d ELSE "v-" \o n] :
        names \in SUBSET EnvNames, d \in Displays}
g_get_home_dir == "/root"
NoEnv == <<>>

process_set_env(e, name, value) ==
    [n \in DOMAIN e \cup {name} |-> IF n = name THEN value ELSE e[n]]

\* if (g_getenv (name)) process_set_env (process, name, g_getenv (name)).
PassThrough(e, env, name) ==
    IF name \in DOMAIN env THEN process_set_env(e, name, env[name]) ELSE e

\* Mutant: XAUTHORITY is passed through whether or not DISPLAY is set.
DisplayVariables_Apart(env) ==
    IF "DISPLAY" \in DOMAIN env
    THEN IF "XAUTHORITY" \in DOMAIN env
         THEN PassThrough(PassThrough(NoEnv, env, "DISPLAY"), env, "XAUTHORITY")
         ELSE process_set_env(PassThrough(NoEnv, env, "DISPLAY"), "XAUTHORITY",
                              g_get_home_dir \o "/.Xauthority")
    ELSE PassThrough(NoEnv, env, "XAUTHORITY")

\* Lines 495-506: DISPLAY and XAUTHORITY when running inside a display.
DisplayVariables(env) ==
    IF "DISPLAY" \in DOMAIN env
    THEN IF "XAUTHORITY" \in DOMAIN env
         THEN PassThrough(PassThrough(NoEnv, env, "DISPLAY"), env, "XAUTHORITY")
         ELSE process_set_env(PassThrough(NoEnv, env, "DISPLAY"), "XAUTHORITY",
                              g_get_home_dir \o "/.Xauthority")
    ELSE NoEnv

\* The environment set on the process, which starts from a cleared one
\* (process_set_clear_environment, line 428).
child_environment(env) ==
    PassThrough(
        PassThrough(
            PassThrough(
                PassThrough(DisplayVariables(env), env, "LD_PRELOAD"),
                env, "LD_LIBRARY_PATH"),
            env, "PATH"),
        env, "LIGHTDM_TEST_ROOT")

\* What "X -version" may give when start () has it run: nothing, or the
\* version of an X server older than 1.17.
StartProbes(r, cfg, spawned) ==
    IF StartOutcome(r, spawned) \in {"spawnfailed", "started"} /\ ComparesVersion(cfg)
    THEN {NotRun,
          Ran(0, <<Line(FALSE, <<"a">>), Line(TRUE, <<"1", DOT, "9", DOT, "1">>)>>)}
    ELSE {NotRun}

\* The statics after an earlier look at an X server 1.17.
Known117 ==
    x_server_local_get_version(NoVersion, Ran(0, <<Line(TRUE, <<"1", DOT, "1", "7">>)>>))

\* x_server_local_start on the version statics: the version is looked up
\* when the TCP flag is decided.
x_server_local_start_version(r, cfg, xv, out, spawned) ==
    IF StartOutcome(r, spawned) \in {"spawnfailed", "started"} /\ ComparesVersion(cfg)
    THEN [x_server_local_get_version(xv, out) EXCEPT !.asked =
             <<guint(1), guint(17),
               x_server_local_version_compare(x_server_local_get_version(xv, out),
                                              guint(1), guint(17))>>]
    ELSE xv

\* x_server_local_start on the record of the launch: how the call ended,
\* whether the writing of the authority failed, and the command and the environment
\* set on the process.
x_server_local_start_launch(r, s, l, xv, out, written, spawned) ==
    IF l.op = "none" THEN l
    ELSE IF StartOutcome(r, spawned) \in {"spawnfailed", "started"}
    THEN [l EXCEPT !.op = StartOutcome(r, spawned), !.s = s,
                   !.write_failed = r.authority /\ ~written,
                   !.command = command_line(r, l.cfg,
                                   IF ComparesVersion(l.cfg)
                                   THEN x_server_local_get_version(xv, out) ELSE xv,
                                   written),
                   !.child_env = child_environment(l.env)]
    ELSE [l EXCEPT !.op = StartOutcome(r, spawned), !.s = s,
                   !.write_failed = FALSE,
                   !.command = <<>>, !.child_env = NoEnv]

\* A launch record with the setters called and nothing started yet.
Armed(cfg, env) ==
    [op |-> "armed", s |-> 0, cfg |-> cfg, env |-> env, write_failed |-> FALSE,
     command |-> <<>>, child_env |-> NoEnv]

\* x_server_local_finalize: the VT reference is dropped, the strings and the
\* process are freed.
x_server_local_finalize(r) ==
    Blank("finalized",
          [Zero EXCEPT !.vt_held =
                 IF r.have_vt_ref THEN vt_unref(r.vt_held, r.vt) ELSE r.vt_held])

Live(s) == server[s].life = "live"
Did(op, s, ret, why) == last' = [op |-> op, s |-> s, ret |-> ret, why |-> why]
Other == Did("other", 0, TRUE, "none")

\* --------------------------------------------------------- server actions
New(s) ==
    /\ server[s].life = "none"
    /\ \A t \in DOMAIN server : t < s => server[t].life # "none"
    /\ UnusedDisplayNumber <= MaxDisplay
    /\ server' = [server EXCEPT ![s] = x_server_local_init(@, UnusedDisplayNumber)]
    /\ display_numbers' = Append(display_numbers, UnusedDisplayNumber)
    /\ Other
    /\ UNCHANGED <<min_display, restVars, locks, hist, auth_files>>

\* The seat sets the command before it starts the server.
SetCommand(s, c) ==
    /\ Live(s)
    /\ ~server[s].x_server_process
    /\ server' = [server EXCEPT ![s].command = c]
    /\ Other
    /\ UNCHANGED <<allocVars, restVars, auth_files>>

SetVt(s, v) ==
    /\ Live(s)
    /\ server' = [server EXCEPT ![s] = x_server_local_set_vt(@, v)]
    /\ Other
    /\ UNCHANGED <<allocVars, restVars, auth_files>>

SetXdmcpKey(s, k) ==
    /\ Live(s)
    /\ server' = [server EXCEPT ![s] = x_server_local_set_xdmcp_key(@, k)]
    /\ Other
    /\ UNCHANGED <<allocVars, restVars, auth_files>>

\* x_server_set_authority of the base class: the seat gives the server an
\* authority.
SetAuthority(s) ==
    /\ Live(s)
    /\ server' = [server EXCEPT ![s].authority = TRUE]
    /\ Other
    /\ UNCHANGED <<allocVars, restVars, auth_files>>

\* x_server_local_start on server s, the authority write and process_start
\* ending as written and spawned say.
StartCall(s, written, spawned) ==
    /\ server' = [server EXCEPT ![s] = x_server_local_start(@, spawned)]
    /\ auth_files' = x_server_local_start_files(server[s], auth_files, written, spawned)
    /\ display_numbers' = x_server_local_start_numbers(server[s], spawned)
    /\ Did("start", s, StartOutcome(server[s], spawned) = "started",
           StartOutcome(server[s], spawned))

Start(s) ==
    /\ Live(s)
    /\ \E written, spawned \in BOOLEAN :
       \E out \in StartProbes(server[s], Config(launch), spawned) :
         /\ StartCall(s, written, spawned)
         /\ launch' = x_server_local_start_launch(server[s], s, launch, xversion,
                                                 out, written, spawned)
         /\ xversion' = x_server_local_start_version(server[s], Config(launch),
                                                    xversion, out, spawned)
    /\ UNCHANGED <<min_display, seats, locks, hist>>

\* The supervisor saw a signal from the child; it emits got_signal only for
\* a child that has not exited yet.
GotSignal(s, signum) ==
    /\ Live(s)
    /\ server[s].child \in {"running", "stopping"}
    /\ server' = [server EXCEPT ![s] = got_signal_cb(@, signum)]
    /\ Did("got_signal", s, got_signal_cb(server[s], signum) # server[s], signum)
    /\ UNCHANGED <<allocVars, restVars, auth_files>>

\* The child exited: the supervisor emits stopped.
ChildExit(s) ==
    /\ Live(s)
    /\ server[s].child \in {"running", "stopping"}
    /\ server' = [server EXCEPT ![s] = [stopped_cb(@) EXCEPT !.child = "exited"]]
    /\ auth_files' = stopped_cb_files(server[s], auth_files)
    /\ display_numbers' = ReleasedList(server[s].display_number)
    /\ Did("stopped", s, TRUE, IF server[s].child = "stopping" THEN "stop" ELSE "none")
    /\ UNCHANGED <<min_display, restVars, locks, hist>>

\* x_server_local_stop: process_stop asks a running child to end; nothing
\* of the server's own data changes.
x_server_local_stop(r) ==
    IF r.child = "running" THEN [r EXCEPT !.child = "stopping"] ELSE r

Stop(s) ==
    /\ Live(s)
    /\ server' = [server EXCEPT ![s] = x_server_local_stop(@)]
    /\ Other
    /\ UNCHANGED <<allocVars, restVars, auth_files>>

Finalize(s) ==
    /\ Live(s)
    /\ server' = [server EXCEPT ![s] = x_server_local_finalize(@)]
    /\ Other
    /\ UNCHANGED <<allocVars, restVars, auth_files>>

Init ==
    /\ display_numbers = <<>>
    /\ min_display = 0
    /\ locks = [n \in 0..MaxLock |-> Absent]
    /\ hist = <<>>
    /\ NoServers

Next ==
    \E s \in Servers :
        \/ New(s)
        \/ \E c \in Commands : SetCommand(s, c)
        \/ \E v \in VtValues : SetVt(s, v)
        \/ \E k \in {NULL, "key"} : SetXdmcpKey(s, k)
        \/ SetAuthority(s)
        \/ Start(s)
        \/ \E signum \in Signals : GotSignal(s, signum)
        \/ ChildExit(s)
        \/ Finalize(s)

Spec == Init /\ [][Next]_vars

\* The same with stop () called on the servers.
NextWithStop == Next \/ \E s \in Servers : Stop(s)
SpecWithStop == Init /\ [][NextWithStop]_vars

\* ------------------------------------------------- the launch of one server
\* The environment lightdm runs in when it is started from a display.
TypicalEnv ==
    [n \in {"DISPLAY", "PATH", "HOME"} |->
        IF n = "DISPLAY" THEN ":0" ELSE "v-" \o n]

\* Commands the seat may set on the server before the launch.
LaunchCommands == {"X -core", "nox"}

\* The seat configures its server, then starts it: the setters do not run
\* once the process is attached.
Configure(s) ==
    /\ ~server[s].x_server_process
    /\ \/ \E c \in LaunchCommands : SetCommand(s, c)
       \/ \E v \in VtValues : SetVt(s, v)
       \/ \E k \in {NULL, "key"} : SetXdmcpKey(s, k)
       \/ SetAuthority(s)

NextLaunch == New(1) \/ Configure(1) \/ Start(1) \/ Finalize(1)

\* Every configuration, one environment; the version is not known yet, or
\* it was looked up before.
InitCmd ==
    /\ display_numbers = <<>>
    /\ min_display \in 0..MaxMin
    /\ locks = [n \in 0..MaxLock |-> Absent]
    /\ hist = <<>>
    /\ server = [s \in Servers |-> Blank("none", Zero)]
    /\ auth_files = {}
    /\ last = [op |-> "none", s |-> 0, ret |-> FALSE, why |-> "none"]
    /\ \E cfg \in Configs : launch = Armed(cfg, TypicalEnv)
    /\ seats = NoSeats
    /\ xversion \in {NoVersion, Known117}

SpecCmd == InitCmd /\ [][NextLaunch]_vars

\* Every environment, the default configuration.
InitEnv ==
    /\ display_numbers = <<>>
    /\ min_display \in 0..MaxMin
    /\ locks = [n \in 0..MaxLock |-> Absent]
    /\ hist = <<>>
    /\ server = [s \in Servers |-> Blank("none", Zero)]
    /\ auth_files = {}
    /\ last = [op |-> "none", s |-> 0, ret |-> FALSE, why |-> "none"]
    /\ \E env \in Environments : launch = Armed(DefaultConfig, env)
    /\ seats = NoSeats
    /\ xversion = NoVersion

SpecEnv == InitEnv /\ [][NextLaunch]_vars

\* ------------------------------------------- one server and the VT registry
\* One server through its life, its VT set to any index of the registry
\* at any time.
NextVt ==
    \/ New(1)
    \/ \E v \in {0 - 1, 0} \cup VtIndexes : SetVt(1, v)
    \/ Start(1)
    \/ \E signum \in Signals : GotSignal(1, signum)
    \/ ChildExit(1)
    \/ Stop(1)
    \/ Finalize(1)

SpecVt == Init /\ [][NextVt]_vars

\* ------------------------------------------ one server that can be stopped
\* The owner of the server keeps its reference while a child runs: the
\* object is finalized only before start or after stopped.
FinalizeAtRest(s) ==
    /\ server[s].child \notin {"running", "stopping"}
    /\ Finalize(s)

\* The supervisor ends a child it was asked to stop, and emits stopped.
StoppedAfterStop(s) ==
    /\ server[s].child = "stopping"
    /\ ChildExit(s)

NextLive ==
    \/ New(1)
    \/ \E v \in VtValues : SetVt(1, v)
    \/ SetAuthority(1)
    \/ Start(1)
    \/ \E signum \in Signals : GotSignal(1, signum)
    \/ ChildExit(1)
    \/ Stop(1)
    \/ FinalizeAtRest(1)

SpecLive == Init /\ [][NextLive]_vars /\ WF_vars(StoppedAfterStop(1))

\* ------------------------------------------------- the version statics alone
\* What "X -version" may print after the X.Org prefix.
VersionTexts ==
    {<<"1", DOT, "1", "7">>, <<"1", DOT, "9", DOT, "1">>, <<"1", "7", DOT, "0">>,
     <<"0", DOT, "1", "7">>, <<"7">>, <<"1", DOT>>, <<MINUS, "1", DOT, "0">>,
     <<"1", DOT, MINUS, "1">>, <<"a">>, <<>>}

\* What a run of "X -version" may give.
ProbeOutputs ==
    {NotRun, Ran(1, <<Line(TRUE, <<"1", DOT, "1", "7">>)>>), Ran(0, <<>>),
     Ran(0, <<Line(FALSE, <<"7">>)>>)}
        \cup {Ran(0, <<Line(FALSE, <<"a">>), Line(TRUE, t), Line(TRUE, <<"7">>)>>) :
                 t \in VersionTexts}

\* Arguments of x_server_local_version_compare: small ones, and ones with
\* bit 31 set.
HighBit == [hi |-> Half \div 2, lo |-> 0]
CompareArgs ==
    {guint(0), guint(1), guint(17), HighBit, [HighBit EXCEPT !.lo = 2],
     guint(0 - 1)}

GetVersion(out) ==
    /\ xversion' = x_server_local_get_version(xversion, out)
    /\ UNCHANGED <<allocVars, serverVars, launch, seats>>

\* x_server_local_version_compare (major, minor); asked keeps the arguments
\* and the sign of what was returned.
VersionCompare(major, minor, out) ==
    /\ xversion' =
          [x_server_local_get_version(xversion, out) EXCEPT !.asked =
              <<major, minor,
                x_server_local_version_compare(
                    x_server_local_get_version(xversion, out), major, minor)>>]
    /\ UNCHANGED <<allocVars, serverVars, launch, seats>>

NextVersion ==
    \E out \in ProbeOutputs :
        \/ GetVersion(out)
        \/ \E major, minor \in CompareArgs : VersionCompare(major, minor, out)

SpecVersion == Init /\ [][NextVersion]_vars

\* --------------------------------------- one server and a late ready signal
\* The process object and its two handlers stay connected after stopped
\* was handled (they go at finalize): the signal of the process fires once
\* more, after the child is gone or after a start that failed.
LateSignal(s, signum) ==
    /\ Live(s)
    /\ server[s].x_server_process
    /\ server[s].child \in {"none", "exited"}
    /\ server' = [server EXCEPT ![s] = got_signal_cb(@, signum)]
    /\ Did("got_signal", s, got_signal_cb(server[s], signum) # server[s], signum)
    /\ UNCHANGED <<allocVars, restVars, auth_files>>

NextLate ==
    \/ New(1)
    \/ \E c \in Commands : SetCommand(1, c)
    \/ \E v \in VtValues : SetVt(1, v)
    \/ Start(1)
    \/ \E signum \in Signals : GotSignal(1, signum)
    \/ ChildExit(1)
    \/ \E signum \in Signals : LateSignal(1, signum)
    \/ Finalize(1)

SpecLate == Init /\ [][NextLate]_vars

\* ------------------------------------------------------- several servers
\* Number of XServerLocal objects that are made one after the other or live
\* side by side.
NumInstances == 2
Instances == 1..NumInstances

NextMany ==
    \E s \in Instances :
        \/ New(s)
        \/ Start(s)
        \/ GotSignal(s, SIGUSR1)
        \/ ChildExit(s)
        \/ Finalize(s)

InitMany ==
    /\ display_numbers = <<>>
    /\ min_display = 0
    /\ locks = [n \in 0..MaxLock |-> Absent]
    /\ hist = <<>>
    /\ server = [s \in Instances |-> Blank("none", Zero)]
    /\ auth_files = {}
    /\ last = [op |-> "none", s |-> 0, ret |-> FALSE, why |-> "none"]
    /\ launch = NoLaunch
    /\ seats = NoSeats
    /\ xversion = NoVersion

SpecMany == InitMany /\ [][NextMany]_vars

\* ------------------------------------------------------------ seat actions
NewSeat(i, session) ==
    /\ seats.seat[i].life = "none"
    /\ \A j \in Seats : j < i => seats.seat[j].life # "none"
    /\ seats' = [seats EXCEPT !.seat[i] = seat_xdmcp_session_new(session)]
    /\ UNCHANGED <<allocVars, serverVars, launch, xversion>>

\* A session of the given type asks the seat for a display server; calls
\* keeps the type and the object returned.
CreateDisplayServer(i, type) ==
    /\ seats.seat[i].life = "live"
    /\ Len(seats.seat[i].calls) < MaxCalls
    /\ LET out == seat_xdmcp_session_create_display_server(
                      seats.seat[i], type, Len(seats.remotes) + 1)
       IN  seats' =
              [seat |-> [seats.seat EXCEPT ![i] =
                            [out.seat EXCEPT !.calls = Append(@, <<type, out.ret>>)]],
               remotes |-> IF out.ret # None
                           THEN Append(seats.remotes,
                                       x_server_remote_new(i, seats.seat[i].session))
                           ELSE seats.remotes]
    /\ UNCHANGED <<allocVars, serverVars, launch, xversion>>

FinalizeSeat(i) ==
    /\ seats.seat[i].life = "live"
    /\ seats' = [seats EXCEPT !.seat[i] = seat_xdmcp_session_finalize(@)]
    /\ UNCHANGED <<allocVars, serverVars, launch, xversion>>

NextSeat ==
    \E i \in Seats :
        \/ \E session \in XdmcpSessions : NewSeat(i, session)
        \/ \E type \in SessionTypes : CreateDisplayServer(i, type)
        \/ FinalizeSeat(i)

SpecSeat == Init /\ [][NextSeat]_vars

\* ------------------------------------------------------ allocator actions
Reserve ==
    /\ UnusedDisplayNumber <= MaxDisplay
    /\ display_numbers' = Append(display_numbers, UnusedDisplayNumber)
    /\ hist' = Remember([op |-> "reserve", n |-> UnusedDisplayNumber])
    /\ UNCHANGED <<min_display, restVars, locks, serverVars>>

Release(n) ==
    /\ display_numbers' = ReleasedList(n)
    /\ hist' = Remember([op |-> "release", n |-> n])
    /\ UNCHANGED <<min_display, restVars, locks, serverVars>>

\* A foreign X server creates, rewrites or removes its lock file.
LockChange(n, f) ==
    /\ locks[n] # f
    /\ locks' = [locks EXCEPT ![n] = f]
    /\ hist' = <<>>
    /\ UNCHANGED <<display_numbers, min_display, restVars, serverVars>>

InitAlloc ==
    /\ display_numbers = <<>>
    /\ min_display \in 0..MaxMin
    /\ locks = [n \in 0..MaxLock |-> Absent]
    /\ hist = <<>>
    /\ NoServers

NextAlloc ==
    \/ Reserve
    \/ \E n \in 0..MaxDisplay : Release(n)
    \/ \E n \in 0..MaxLock, f \in AllocFileStates : LockChange(n, f)

SpecAlloc == InitAlloc /\ [][NextAlloc]_vars

\* ------------------------------------------------- the lock probe alone
\* display_number_in_use run on every state of one lock file.
Probe(n) ==
    /\ hist' = <<[op |-> "probe", n |-> n, ret |-> display_number_in_use(n)]>>
    /\ UNCHANGED <<display_numbers, min_display, restVars, locks, serverVars>>

InitProbe ==
    /\ display_numbers = <<>>
    /\ min_display = 0
    /\ \E f \in FileStates : locks = [n \in 0..MaxLock |-> IF n = 0 THEN f ELSE Absent]
    /\ hist = <<>>
    /\ NoServers

NextProbe == \E n \in 0..MaxLock : Probe(n)

SpecProbe == InitProbe /\ [][NextProbe]_vars

\* ================================================================ claims
Last == hist[Len(hist)]
LastOp == IF hist = <<>> THEN "none" ELSE Last.op

\* C1: whatever reserve and release calls were made, the numbers in the
\* allocator's list are pairwise distinct and none is below the configured
\* minimum-display-number.
C1_ReservedDistinctAboveMin ==
    /\ \A i, j \in 1..Len(display_numbers) :
          i # j => display_numbers[i] # display_numbers[j]
    /\ \A i \in 1..Len(display_numbers) : display_numbers[i] >= min_display

C1_Witness ==
    /\ Len(display_numbers) >= 2
    /\ Len(hist) >= 2
    /\ hist[Len(hist) - 1].op = "release"
    /\ Last.op = "reserve"

\* The smallest number from the configured minimum on that is not in use.
SmallestFree ==
    CHOOSE n \in min_display..(MaxDisplay + MaxLock + 2) :
        /\ ~display_number_in_use(n)
        /\ \A m \in min_display..(n - 1) : display_number_in_use(m)

\* C2: a reserve call returns the smallest number >= the minimum that is
\* not in use when it is called, appends exactly that number to the list
\* and adds or removes nothing else.
C2_ReserveSmallestFree ==
    [][Len(display_numbers') > Len(display_numbers) =>
          /\ LastOp' = "reserve"
          /\ Last'.n = SmallestFree
          /\ display_numbers' = Append(display_numbers, Last'.n)]_vars

\* The foreign-lock scenario: the minimum is locked by a live server and
\* reserve went past it.
C2_Witness ==
    /\ LastOp = "reserve"
    /\ ForeignLock(LockOf(min_display))
    /\ Last.n > min_display
    /\ Last.n = display_numbers[Len(display_numbers)]

\* What the claim calls a valid foreign lock: the file exists, its stripped
\* contents are a positive decimal PID, and kill (pid, 0) does not fail
\* with ESRCH.
IsPositivePid(d) ==
    /\ d # <<>>
    /\ \A i \in 1..Len(d) : d[i] \in Digits
    /\ ParseDigits(d, 0) > 0

ClaimedValidLock(f) ==
    /\ f.exists
    /\ f.readable
    /\ IsPositivePid(g_strstrip(f.data))
    /\ kill0(ParseDigits(g_strstrip(f.data), 0)) # "ESRCH"

\* C3: for every state of the lock file, display_number_in_use takes the
\* foreign lock as valid exactly when the file exists, its stripped
\* contents parse as a positive PID and the probe of that PID does not
\* fail with ESRCH.
C3_LockValidIffPositiveLivePid ==
    LastOp = "probe" =>
        (Last.ret <=> (Last.n \in Range(display_numbers)
                        \/ ClaimedValidLock(LockOf(Last.n))))

\* C4: reserve giving n, then release (n), then reserve again, with no
\* other allocator call and no lock change in between, gives n again.
C4_RoundTrip ==
    Len(hist) >= 3 =>
        LET a == hist[Len(hist) - 2]
            b == hist[Len(hist) - 1]
            c == hist[Len(hist)]
        IN  (a.op = "reserve" /\ b.op = "release" /\ b.n = a.n /\ c.op = "reserve")
                => c.n = a.n

C4_Witness ==
    /\ Len(hist) >= 3
    /\ hist[Len(hist) - 2].op = "reserve"
    /\ hist[Len(hist) - 1].op = "release"
    /\ hist[Len(hist) - 1].n = hist[Len(hist) - 2].n
    /\ Last.op = "reserve"
    /\ Last.n = hist[Len(hist) - 2].n
    /\ Last.n > min_display
    /\ Len(display_numbers) >= 2

\* ---------------------------------------------------- claims on a server
Running(s) == server[s].life = "live" /\ server[s].child \in {"running", "stopping"}
Launching(s) == Running(s) /\ ~server[s].got_signal
Ready(s) == Running(s) /\ server[s].got_signal
Reserved == Range(display_numbers)
HoldsNoVt(r) == ~r.have_vt_ref /\ r.vt_held = NoVt
StayedLive(s) == server[s].life = "live" /\ server'[s].life = "live"

\* C5: the base class's start is chained at most once for a server, and
\* only by the handler of a SIGUSR1 of its child: not by process_start
\* succeeding, not by another signal, not by a second SIGUSR1; the first
\* SIGUSR1 does chain it.
C5_BaseStartOnlyOnFirstSigusr1 ==
    [][\A s \in DOMAIN server : StayedLive(s) =>
          /\ server'[s].base_start # server[s].base_start =>
                /\ server[s].base_start = 0
                /\ server'[s].base_start = 1
                /\ last' = [op |-> "got_signal", s |-> s, ret |-> TRUE, why |-> SIGUSR1]
          /\ (last'.op = "got_signal" /\ last'.s = s /\ last'.why = SIGUSR1)
                => server'[s].base_start = 1
          /\ (last'.op = "start" /\ last'.s = s)
                => server'[s].base_start = server[s].base_start]_vars

\* A second SIGUSR1 was handled and chained nothing.
C5_Witness ==
    \E s \in DOMAIN server :
        /\ last = [op |-> "got_signal", s |-> s, ret |-> FALSE, why |-> SIGUSR1]
        /\ server[s].base_start = 1
        /\ Ready(s)

\* C6: when stopped is handled for a server that got its SIGUSR1, the base
\* class's stop is chained exactly once, and when it is chained the
\* server's display number is not in the allocator's list and the server
\* holds no VT reference.
C6_StopAfterReadyReleases ==
    [][\A s \in DOMAIN server :
          (StayedLive(s) /\ server[s].got_signal
             /\ server'[s].stopped_runs # server[s].stopped_runs) =>
                /\ server[s].stopped_runs = 0
                /\ server[s].base_stop = 0
                /\ server'[s].base_stop = 1
                /\ server[s].display_number \notin Range(display_numbers')
                /\ HoldsNoVt(server'[s])]_vars

C6_Witness ==
    \E s \in DOMAIN server :
        /\ last.op = "stopped" /\ last.s = s
        /\ server[s].got_signal
        /\ server[s].base_start = 1
        /\ server[s].base_stop = 1
        /\ server[s].vt > 0
        /\ HoldsNoVt(server[s])
        /\ server[s].display_number \notin Reserved

\* C7 as stated: the process handle is attached exactly while the server is
\* Launching or Ready.
C7_ProcessIffLaunchingOrReady ==
    \A s \in DOMAIN server :
        server[s].life = "live" => (server[s].x_server_process <=> Running(s))

\* C7 as amended: the process handle is attached from the start () that got
\* past its two checks until the object is destroyed. It is attached while
\* the server is Launching or Ready, and it stays attached once stopped was
\* handled (child exit or failed start), so no server gets past the checks
\* of start () twice.
C7_ProcessKeptUntilFinalize ==
    \A s \in DOMAIN server :
        server[s].life = "live" =>
            /\ Running(s) => server[s].x_server_process
            /\ server[s].x_server_process <=> server[s].launches = 1
            /\ server[s].launches <= 1
            /\ server[s].stopped_runs >= 1 => server[s].x_server_process

\* start () was called again on a server whose child exited, and was refused.
C7_Witness ==
    \E s \in DOMAIN server :
        /\ server[s].life = "live"
        /\ server[s].child = "exited"
        /\ server[s].stopped_runs = 1
        /\ server[s].x_server_process
        /\ last = [op |-> "start", s |-> s, ret |-> FALSE, why |-> "precondition"]

StoppedJustHandled(s) ==
    /\ last.s = s
    /\ \/ last.op = "stopped"
       \/ last.op = "start" /\ last.why \in {"notfound", "spawnfailed"}

\* C8: once stopped was handled, on whatever path and whatever setters were
\* called while the child ran, the authority file is unlinked and the stored
\* path is null.
C8_AuthorityFileGoneAfterStopped ==
    \A s \in DOMAIN server :
        StoppedJustHandled(s) =>
            /\ server[s].authority_file = NoFile
            /\ AuthPath(server[s].display_number) \notin auth_files

\* C9 as stated: every start () that returns failure has released the
\* display number and the VT reference.
C9_EveryFailedStartReleases ==
    \A s \in DOMAIN server :
        (last.op = "start" /\ last.s = s /\ ~last.ret) =>
            /\ server[s].display_number \notin Reserved
            /\ HoldsNoVt(server[s])

\* C9 as amended: a start () that fails after its two checks (binary not in
\* PATH, process_start failing) has run the stopped handling before it
\* returns: the display number is not in the list, no VT reference is
\* held, the base class's stop was chained. A start () refused by a check
\* releases nothing of what the server holds.
C9_FailedLaunchReleases ==
    \A s \in DOMAIN server :
        (last.op = "start" /\ last.s = s /\ ~last.ret) =>
            IF last.why \in {"notfound", "spawnfailed"}
            THEN /\ server[s].display_number \notin Reserved
                 /\ HoldsNoVt(server[s])
                 /\ server[s].stopped_runs = 1
                 /\ server[s].base_stop = 1
            ELSE /\ last.why = "precondition"
                 /\ server[s].stopped_runs = 0 =>
                       /\ server[s].display_number \in Reserved
                       /\ server[s].have_vt_ref <=> server[s].vt > 0

\* process_start failed on a server that held a VT reference.
C9_Witness ==
    \E s \in DOMAIN server :
        /\ last = [op |-> "start", s |-> s, ret |-> FALSE, why |-> "spawnfailed"]
        /\ server[s].vt > 0
        /\ server[s].authority
        /\ HoldsNoVt(server[s])

\* C10: a start () refused by a check (command unset, or a process already
\* attached) returns failure, spawns no child, chains neither start nor
\* stop, runs no stopped handling, and changes no field of the server, no
\* authority file and nothing of the allocator.
C10_RefusedStartChangesNothing ==
    [][(last'.op = "start" /\ last'.why = "precondition") =>
          /\ ~last'.ret
          /\ server' = server
          /\ auth_files' = auth_files
          /\ display_numbers' = display_numbers]_vars

\* start () was refused on a server that is Ready.
C10_Witness ==
    \E s \in DOMAIN server :
        /\ last = [op |-> "start", s |-> s, ret |-> FALSE, why |-> "precondition"]
        /\ Ready(s)
        /\ server[s].base_start = 1

\* C11: when the command is not found in PATH, or process_start fails,
\* start () returns failure and the stopped handling (VT reference dropped,
\* display number released, base stop chained) runs exactly once in that
\* call; when the command is not found, process_start is not called and no
\* authority file is written.
C11_FailedLaunchStopsOnce ==
    [][\A s \in DOMAIN server :
          (last'.op = "start" /\ last'.s = s
             /\ last'.why \in {"notfound", "spawnfailed"}) =>
                /\ ~last'.ret
                /\ server'[s].stopped_runs = server[s].stopped_runs + 1
                /\ server'[s].base_stop = server[s].base_stop + 1
                /\ HoldsNoVt(server'[s])
                /\ server[s].display_number \notin Range(display_numbers')
                /\ server'[s].child = "none"
                /\ last'.why = "notfound" =>
                      /\ server'[s].spawns = server[s].spawns
                      /\ auth_files' = auth_files
                      /\ server'[s].authority_file = NoFile
                /\ last'.why = "spawnfailed" =>
                      server'[s].spawns = server[s].spawns + 1]_vars

\* The command of a server with an authority and a VT was not found.
C11_Witness ==
    \E s \in DOMAIN server :
        /\ last = [op |-> "start", s |-> s, ret |-> FALSE, why |-> "notfound"]
        /\ server[s].authority
        /\ server[s].vt > 0
        /\ server[s].spawns = 0
        /\ server[s].stopped_runs = 1

\* ------------------------------------------------- claims on the launch
Has(cmd, w) == \E i \in 1..Len(cmd) : cmd[i] = w
HasPair(cmd, w, v) == \E i \in 1..(Len(cmd) - 1) : cmd[i] = w /\ cmd[i + 1] = v

\* The state is the one start () of server s left, and the command was
\* handed to the process.
JustLaunched(s) ==
    /\ last.op = "start" /\ last.s = s
    /\ last.why \in {"spawnfailed", "started"}
    /\ launch.op = last.why /\ launch.s = s

\* C12 as stated: when an authority exists and writing it fails, start ()
\* goes on to process_start and the command has no -auth word.
C12_NoAuthWhenWriteFails ==
    \A s \in DOMAIN server :
        (JustLaunched(s) /\ launch.write_failed) =>
            /\ server[s].spawns = 1
            /\ ~Has(launch.command, "-auth")

\* C12 amended: a failed write does not stop the start, and it does not
\* change the command: -auth with the path is there exactly when the server
\* has an authority, though the file is not on disk when the write failed.
C12_AuthKeptWhenWriteFails ==
    \A s \in DOMAIN server :
        JustLaunched(s) =>
            /\ server[s].spawns = 1
            /\ Has(launch.command, "-auth") <=> server[s].authority
            /\ server[s].authority =>
                  HasPair(launch.command, "-auth",
                          PathText(AuthPath(server[s].display_number)))
            /\ launch.write_failed =>
                  AuthPath(server[s].display_number) \notin auth_files

\* The child runs, the authority file could not be written, -auth is there.
C12_Witness ==
    \E s \in DOMAIN server :
        /\ JustLaunched(s) /\ launch.write_failed
        /\ last.ret
        /\ server[s].child = "running"
        /\ Has(launch.command, "-auth")

RECURSIVE Joined(_)
Joined(groups) == IF groups = <<>> THEN <<>> ELSE Head(groups) \o Joined(Tail(groups))

\* C13: the command is the absolute binary with its arguments, then
\* :<display_number>, then, each exactly when its condition holds and in
\* this order, -config, -layout, -seat, -auth, the XDMCP words (-port,
\* -query, -cookie) or else the TCP flag, vt<n> -novtswitch, -background,
\* and the words of the subclass.
C13_FixedArgumentOrder ==
    \A s \in DOMAIN server :
        JustLaunched(s) =>
            LET r == server[s]
                cfg == launch.cfg
                binary == IF r.command = "X -core" THEN <<"/usr/bin/X", "-core">>
                          ELSE <<"/usr/bin/X">>
                tcp == IF cfg.allow_tcp
                       THEN IF xversion.asked # <<>> /\ xversion.asked[3] >= 0
                            THEN <<"-listen", "tcp">> ELSE <<>>
                       ELSE <<"-nolisten", "tcp">>
            IN  launch.command = Joined(<<
                    binary,
                    <<":" \o ToString(r.display_number)>>,
                    IF cfg.config_file # NULL THEN <<"-config", cfg.config_file>> ELSE <<>>,
                    IF cfg.layout # NULL THEN <<"-layout", cfg.layout>> ELSE <<>>,
                    IF cfg.xdg_seat # NULL THEN <<"-seat", cfg.xdg_seat>> ELSE <<>>,
                    IF r.authority
                    THEN <<"-auth", PathText(AuthPath(r.display_number))>> ELSE <<>>,
                    IF cfg.xdmcp_server # NULL /\ cfg.xdmcp_port # 0
                    THEN <<"-port", ToString(cfg.xdmcp_port)>> ELSE <<>>,
                    IF cfg.xdmcp_server # NULL
                    THEN <<"-query", cfg.xdmcp_server>> ELSE <<>>,
                    IF cfg.xdmcp_server # NULL /\ r.xdmcp_key # NULL
                    THEN <<"-cookie", r.xdmcp_key>> ELSE <<>>,
                    IF cfg.xdmcp_server = NULL THEN tcp ELSE <<>>,
                    IF r.vt >= 0 THEN <<"vt" \o ToString(r.vt), "-novtswitch">> ELSE <<>>,
                    IF cfg.background # NULL
                    THEN <<"-background", cfg.background>> ELSE <<>>,
                    cfg.add_args>>)

\* Every optional group but the TCP flag is in the command.
C13_Witness ==
    \E s \in DOMAIN server :
        /\ JustLaunched(s)
        /\ server[s].command = "X -core"
        /\ server[s].display_number = 1
        /\ launch.command =
              <<"/usr/bin/X", "-core", ":1", "-config", "xorg.conf", "-layout", "lay",
                "-seat", "seat0", "-auth", "/run/root/:1", "-port", "177",
                "-query", "host.example", "-cookie", "key", "vt1", "-novtswitch",
                "-background", "none", "-mir", "id">>

\* C14 as stated: with allow_tcp set, whatever xdmcp_server is, -listen tcp
\* is in the command exactly when x_server_local_version_compare (1, 17)
\* is not negative; -listen tcp and -nolisten tcp are never both there.
C14_ListenIffVersionAnyXdmcp ==
    \A s \in DOMAIN server :
        JustLaunched(s) =>
            /\ launch.cfg.allow_tcp =>
                  (HasPair(launch.command, "-listen", "tcp")
                      <=> x_server_local_version_compare(xversion, guint(1), guint(17)) >= 0)
            /\ ~(HasPair(launch.command, "-listen", "tcp")
                    /\ HasPair(launch.command, "-nolisten", "tcp"))

\* C14 amended: with allow_tcp set and no xdmcp_server, -listen tcp is in
\* the command exactly when the compare start () made was not negative;
\* with an xdmcp_server neither TCP flag is there and the version is not
\* looked at; the two flags are never both there.
C14_ListenIffVersionNoXdmcp ==
    \A s \in DOMAIN server :
        JustLaunched(s) =>
            /\ (launch.cfg.allow_tcp /\ launch.cfg.xdmcp_server = NULL) =>
                  /\ xversion.asked # <<>>
                  /\ xversion.asked[3] =
                        x_server_local_version_compare(xversion, guint(1), guint(17))
                  /\ HasPair(launch.command, "-listen", "tcp")
                        <=> xversion.asked[3] >= 0
                  /\ ~Has(launch.command, "-nolisten")
            /\ launch.cfg.xdmcp_server # NULL =>
                  /\ ~Has(launch.command, "-listen")
                  /\ ~Has(launch.command, "-nolisten")
                  /\ xversion.asked = <<>>
            /\ ~(HasPair(launch.command, "-listen", "tcp")
                    /\ HasPair(launch.command, "-nolisten", "tcp"))

\* TCP is allowed, the X server is 1.17, -listen tcp was passed.
C14_Witness ==
    \E s \in DOMAIN server :
        /\ JustLaunched(s)
        /\ launch.cfg.allow_tcp /\ launch.cfg.xdmcp_server = NULL
        /\ xversion.version_minor = guint(17)
        /\ HasPair(launch.command, "-listen", "tcp")

Whitelist ==
    {"DISPLAY", "XAUTHORITY", "LD_PRELOAD", "LD_LIBRARY_PATH", "PATH",
     "LIGHTDM_TEST_ROOT"}

\* C15 as stated: the child gets the whitelisted variables that are set in
\* the parent, with the parent's values, and XAUTHORITY = <home>/.Xauthority
\* when DISPLAY is set and XAUTHORITY is not; nothing else.
C15_ChildEnvIsWhitelistOfParent ==
    \A s \in DOMAIN server :
        JustLaunched(s) =>
            LET env == launch.env
                defaulted == IF "DISPLAY" \in DOMAIN env /\ "XAUTHORITY" \notin DOMAIN env
                             THEN {"XAUTHORITY"} ELSE {}
            IN  /\ DOMAIN launch.child_env = (Whitelist \cap DOMAIN env) \cup defaulted
                /\ \A n \in DOMAIN launch.child_env :
                      launch.child_env[n] =
                          IF n \in defaulted THEN "/root/.Xauthority" ELSE env[n]

\* C15 amended: as stated, but XAUTHORITY is handed on only when DISPLAY is
\* set in the parent.
C15_XauthorityOnlyWithDisplay ==
    \A s \in DOMAIN server :
        JustLaunched(s) =>
            LET env == launch.env
                defaulted == IF "DISPLAY" \in DOMAIN env /\ "XAUTHORITY" \notin DOMAIN env
                             THEN {"XAUTHORITY"} ELSE {}
                dropped == IF "DISPLAY" \notin DOMAIN env THEN {"XAUTHORITY"} ELSE {}
            IN  /\ DOMAIN launch.child_env =
                      ((Whitelist \cap DOMAIN env) \ dropped) \cup defaulted
                /\ \A n \in DOMAIN launch.child_env :
                      launch.child_env[n] =
                          IF n \in defaulted THEN "/root/.Xauthority" ELSE env[n]

\* The parent has XAUTHORITY and no DISPLAY; the child gets neither.
C15_Witness ==
    \E s \in DOMAIN server :
        /\ JustLaunched(s)
        /\ "XAUTHORITY" \in DOMAIN launch.env
        /\ "DISPLAY" \notin DOMAIN launch.env
        /\ "PATH" \in DOMAIN launch.child_env
        /\ "XAUTHORITY" \notin DOMAIN launch.child_env

\* --------------------------------------------------- claims on the seat
\* The calls of seat i with session type "x", in order.
XCalls(i) == SelectSeq(seats.seat[i].calls, LAMBDA c : c[1] = "x")
RemotesOf(i) == {k \in 1..Len(seats.remotes) : seats.remotes[k].seat = i}

\* C16 as stated: every call with session type "x" yields the object made
\* on the first such call; every call with another type yields none.
C16_SameObjectOnEveryXCall ==
    \A i \in Seats :
        /\ \A k \in 1..Len(XCalls(i)) :
              XCalls(i)[k][2] # None /\ XCalls(i)[k][2] = XCalls(i)[1][2]
        /\ \A k \in 1..Len(seats.seat[i].calls) :
              seats.seat[i].calls[k][1] # "x" => seats.seat[i].calls[k][2] = None

\* C16 amended: the first call with session type "x" yields a new remote
\* server, made from the session of the seat, which the seat keeps; every
\* later "x" call and every call with another type yields none; the seat
\* never makes a second server.
C16_OnlyFirstXCallYieldsServer ==
    \A i \in Seats :
        /\ \A k \in 1..Len(XCalls(i)) :
              IF k = 1
              THEN /\ XCalls(i)[k][2] \in RemotesOf(i)
                   /\ seats.seat[i].life = "live" =>
                         /\ seats.seat[i].x_server = XCalls(i)[k][2]
                         /\ seats.remotes[XCalls(i)[k][2]] =
                               x_server_remote_new(i, seats.seat[i].session)
              ELSE XCalls(i)[k][2] = None
        /\ \A k \in 1..Len(seats.seat[i].calls) :
              seats.seat[i].calls[k][1] # "x" => seats.seat[i].calls[k][2] = None
        /\ Cardinality(RemotesOf(i)) <= 1
        /\ Cardinality(RemotesOf(i)) = 1 <=> XCalls(i) # <<>>

\* A seat was asked for an "x" server after it had made one, and after a
\* request of another type.
C16_Witness ==
    \E i \in Seats :
        /\ Len(seats.seat[i].calls) >= 3
        /\ seats.seat[i].calls[1][1] = "x" /\ seats.seat[i].calls[1][2] # None
        /\ seats.seat[i].calls[2][1] = "wayland"
        /\ seats.seat[i].calls[3] = <<"x", None>>

\* --------------------------------------------------- claims on the VT
\* C17: a server holds one reference in the VT registry, on index vt with
\* vt > 0, when have_vt_ref is set, and none otherwise; it never holds two,
\* every reference given back is one it took, and right after stopped was
\* handled, and after finalize, it holds none.
C17_AtMostOneVtRef ==
    \A s \in DOMAIN server :
        /\ server[s].have_vt_ref => (server[s].vt > 0 /\ server[s].life = "live")
        /\ server[s].vt_held =
              IF server[s].have_vt_ref THEN [NoVt EXCEPT ![server[s].vt] = 1] ELSE NoVt
        /\ (StoppedJustHandled(s) \/ server[s].life = "finalized") =>
              HoldsNoVt(server[s])

\* The stopped server was given another VT: it holds that one only.
C17_Witness ==
    \E s \in DOMAIN server :
        /\ server[s].life = "live"
        /\ server[s].stopped_runs = 1
        /\ server[s].have_vt_ref
        /\ server[s].vt = MaxVt + 1
        /\ server[s].vt_held = [NoVt EXCEPT ![MaxVt + 1] = 1]

\* ------------------------------------------------- claims on stop ()
\* C18: when stop () was called on a server whose child runs, before or
\* after its SIGUSR1, and the supervisor is fair, stopped is handled in the
\* end: the server gets to a state where its display number is released,
\* it holds no VT reference and the base stop was chained.
C18_StopLeadsToStopped ==
    (server[1].child = "stopping")
        ~> /\ server[1].child = "exited"
           /\ server[1].stopped_runs = 1
           /\ server[1].base_stop = 1
           /\ HoldsNoVt(server[1])
           /\ server[1].display_number \notin Reserved

\* A server that was stopped before its SIGUSR1 came, with a VT and an
\* authority, has handled stopped.
C18_Witness ==
    /\ last = [op |-> "stopped", s |-> 1, ret |-> TRUE, why |-> "stop"]
    /\ ~server[1].got_signal
    /\ server[1].vt > 0
    /\ server[1].authority
    /\ server[1].base_start = 0
    /\ server[1].base_stop = 1
    /\ HoldsNoVt(server[1])
    /\ server[1].display_number \notin Reserved

\* ------------------------------------------------ claims on got_signal
\* C20 as stated: got_signal is set only between a successful start () and
\* the handling of stopped; once stopped was handled it is false again.
C20_GotSignalOnlyWhileRunning ==
    \A s \in DOMAIN server : server[s].got_signal => Running(s)

\* C20 amended: got_signal is false until the first SIGUSR1 of the child of
\* a successful start (); the handler of that signal sets it, and it stays
\* set, through the handling of stopped and through later refused start ()
\* calls, until the object is finalized.
C20_GotSignalKeptUntilFinalize ==
    [][\A s \in DOMAIN server :
          /\ server'[s].got_signal =>
                /\ server'[s].life = "live"
                /\ server'[s].child \in {"running", "stopping", "exited"}
                /\ server'[s].base_start = 1
          /\ (server[s].got_signal /\ StayedLive(s)) => server'[s].got_signal
          /\ (~server[s].got_signal /\ server'[s].got_signal) =>
                /\ Running(s)
                /\ last' = [op |-> "got_signal", s |-> s, ret |-> TRUE, why |-> SIGUSR1]]_vars

\* The child of a ready server exited, start () was called again and
\* refused: got_signal is still set.
C20_Witness ==
    \E s \in DOMAIN server :
        /\ last = [op |-> "start", s |-> s, ret |-> FALSE, why |-> "precondition"]
        /\ server[s].child = "exited"
        /\ server[s].stopped_runs = 1
        /\ server[s].got_signal

\* ------------------------------------------------ claims on the version
\* The order of unsigned 32-bit values, and of pairs of them.
LessU(a, b) == a.hi < b.hi \/ (a.hi = b.hi /\ a.lo < b.lo)
Lexicographic(major, minor, m, n) ==
    IF LessU(major, m) \/ (major = m /\ LessU(minor, n)) THEN 0 - 1
    ELSE IF major = m /\ minor = n THEN 0
    ELSE 1

\* C19: for all unsigned 32-bit values of the detected version and of the
\* arguments, x_server_local_version_compare is negative, zero or positive
\* exactly when the detected (major, minor) is less than, equal to or
\* greater than the arguments; while the version is unknown both detected
\* values are 0.
C19_CompareIsLexicographic ==
    /\ xversion.version = NoText =>
          (xversion.version_major = guint(0) /\ xversion.version_minor = guint(0))
    /\ xversion.asked # <<>> =>
          xversion.asked[3] =
              Lexicographic(xversion.version_major, xversion.version_minor,
                            xversion.asked[1], xversion.asked[2])

\* ------------------------------------------- claims on the order of events
\* C21: the base start is never chained after the base stop: when stopped
\* was handled before any SIGUSR1 (the child exited early, or a failed
\* start synthesised stopped), a SIGUSR1 delivered afterwards does not
\* chain the base start.
C21_NoBaseStartAfterBaseStop ==
    [][\A s \in DOMAIN server :
          (StayedLive(s) /\ server'[s].base_start # server[s].base_start) =>
              server[s].base_stop = 0]_vars

\* --------------------------------------------- claims on several servers
\* C22: no two servers that are Launching or Ready at the same time have
\* the same display_number, though a stopped server keeps its
\* display_number after the number was released and given to a newer one.
C22_RunningServersHaveDistinctNumbers ==
    \A s, t \in DOMAIN server :
        (s # t /\ Running(s) /\ Running(t)) =>
            server[s].display_number # server[t].display_number

\* A server runs on the number a stopped, still existing server keeps in
\* its display_number.
C22_Witness ==
    \E s, t \in DOMAIN server :
        /\ s # t
        /\ Ready(t)
        /\ server[s].life = "live" /\ server[s].child = "exited"
        /\ server[s].display_number = server[t].display_number
        /\ server[t].display_number \in Reserved

\* C23: every number in the allocator's list is the display_number of a
\* server that still exists and has not handled stopped; a server that is
\* made and destroyed without stopped being handled leaves no number behind.
C23_ReservedNumbersHaveLiveOwner ==
    \A n \in Reserved :
        \E s \in DOMAIN server :
            /\ server[s].life = "live"
            /\ server[s].display_number = n
            /\ server[s].stopped_runs = 0
====
